---------------------------- MODULE Spec2Model ----------------------------
(***************************************************************************)
(* A model of the langid training tools: the Aho-Corasick feature scanner  *)
(* (scanner.py), the corpus indexer (index.py), the helpers of common.py   *)
(* (Enumerator, chunk, makedir, unmarshal_iter, MapPool) and the           *)
(* all-in-one driver (train.py).                                           *)
(*                                                                         *)
(* Conventions.  Byte strings are sequences of byte values.  A Python dict *)
(* is a function whose DOMAIN is the dict's key set; dicts iterate in      *)
(* insertion order, which for the enumerating dicts of the indexer is the  *)
(* order of the ids; a set iterates in an order the program does not fix.  *)
(* The builtins map, zip, imap and / are read as the source uses them      *)
(* (list results, integer division).  A raised exception is recorded in    *)
(* the status variable of the component that raised it.  The alphabet and  *)
(* the width of an array cell are cut down together so that every case of  *)
(* the table packing occurs within the bounds.                             *)
(***************************************************************************)
EXTENDS Integers, Sequences, FiniteSets, TLC

VARIABLES
  \* ---- scanner.py: Scanner ----
  keywords,     \* the argument of Scanner.build
  sphase,       \* position inside build / search
  goto,         \* dict (state, byte) -> state
  fail,         \* dict state -> state
  output,       \* defaultdict(set): state -> set of keywords
  newstate,     \* the last state number handed out
  queue,        \* the deque of Algorithms 3 and 4
  enq,          \* history: the states appended to the deque so far
  nextmove,     \* self.nextmove: dict (state, byte) -> state
  soutput,      \* self.output: dict state -> tuple of keywords
  nm_arr,       \* self.nm_arr: the packed table
  typecode,     \* typecode of self.nm_arr
  tk_output,    \* build_scanner: dict state -> tuple of feature positions
  rebuilt,      \* the Scanner made by __setstate__: nm_arr, output, nextmove
  consumed,     \* search: the bytes read so far
  state,        \* search: the current state
  yielded,      \* search: the keys yielded so far
  rstate,       \* search of the rebuilt Scanner: the current state
  ryielded,     \* search of the rebuilt Scanner: the keys yielded so far
  \* ---- index.py: CorpusIndexer ----
  walked,            \* the files os.walk has handed out and line 107 has selected
  min_domain,        \* self.min_domain
  proportion,        \* self.proportion
  langs,             \* the langs argument (None or a list)
  domains,           \* the domains argument (None or a list)
  lang_index,        \* self.lang_index
  lang_index_type,   \* the Python type of self.lang_index
  domain_index,      \* self.domain_index
  domain_index_type, \* the Python type of self.domain_index
  coverage_index,    \* self.coverage_index: domain -> set of languages
  items,             \* self.items
  istatus,           \* position inside CorpusIndexer.__init__
  \* ---- train.py: __main__ ----
  args,              \* the parsed command line
  pc,                \* position inside __main__
  fs,                \* the directories and files that exist
  created,           \* the directories this run has created
  b_dirs,            \* the variable b_dirs
  feature_path,      \* the variable feature_path
  DFfeats,           \* the variable DFfeats
  tokenized,         \* the documents the first pass has tokenized
  calls,             \* the pipeline functions called so far, in order
  \* ---- common.py: MapPool and the with-block that uses it ----
  processes,         \* the processes argument (None or an integer)
  cpu_count,         \* mp.cpu_count()
  initializer,       \* initializer is not None
  initargs,          \* initargs is not None
  n_processes,       \* the local processes after line 130
  mpc,               \* position inside MapPool and the with-block
  pool,              \* state of the mp.Pool, or "none"
  init_calls,        \* runs of the initializer in the calling process
  called,            \* the body has called f(fn, chunks)
  nchunks,           \* the number of chunks handed to f
  tstate,            \* state of the task of every chunk
  results,           \* the chunks whose result the body has received, in order
  \* ---- common.py: unmarshal_iter ----
  ufile,             \* the bytes of the file at path
  upos,              \* the bytes marshal.load has read
  uyielded,          \* the records yielded so far
  ustatus,           \* position inside unmarshal_iter
  \* ---- two runs of train on one corpus with the same options ----
  tprop,             \* --proportion of both runs
  tcorpus,           \* the number of files of the corpus
  tpos,              \* per run: the files os.walk has handed out
  titems,            \* per run: indexer.items
  tindex,            \* per run: feat_index of build_scanner
  tphase             \* per run: position inside __main__

scannerVars == <<keywords, sphase, goto, fail, output, newstate, queue, enq,
                 nextmove, soutput, nm_arr, typecode, tk_output, rebuilt,
                 consumed, state, yielded, rstate, ryielded>>

indexerVars == <<walked, min_domain, proportion, langs, domains,
                 lang_index, lang_index_type, domain_index, domain_index_type,
                 coverage_index, items, istatus>>

trainVars == <<args, pc, fs, created, b_dirs, feature_path, DFfeats, tokenized,
               calls>>

poolVars == <<processes, cpu_count, initializer, initargs, n_processes, mpc,
              pool, init_calls, called, nchunks, tstate, results>>

unmarshalVars == <<ufile, upos, uyielded, ustatus>>

runsVars == <<tprop, tcorpus, tpos, titems, tindex, tphase>>

vars == <<scannerVars, indexerVars, trainVars, poolVars, unmarshalVars,
          runsVars>>

otherThanScanner == <<indexerVars, trainVars, poolVars, unmarshalVars, runsVars>>

otherThanIndexer == <<scannerVars, trainVars, poolVars, unmarshalVars, runsVars>>

otherThanTrain == <<scannerVars, indexerVars, poolVars, unmarshalVars, runsVars>>

otherThanIndexerTrain == <<scannerVars, poolVars, unmarshalVars, runsVars>>

otherThanPool == <<scannerVars, indexerVars, trainVars, unmarshalVars, runsVars>>

otherThanUnmarshal == <<scannerVars, indexerVars, trainVars, poolVars, runsVars>>

otherThanRuns == <<scannerVars, indexerVars, trainVars, poolVars, unmarshalVars>>

-----------------------------------------------------------------------------
(* Bounds of the model *)

\* total length of the keyword list (= the largest number of non-root states)
MaxStates == 5
\* length of the byte strings that are scanned
MaxInputLen == 4
\* number of selected files of a corpus handed to CorpusIndexer
MaxFiles == 5
\* number of selected files of a corpus handed to train
MaxTrainFiles == 1
\* largest --chunksize
MaxChunkSize == 2
\* largest --buckets
MaxBuckets == 2
\* largest min_domain
MaxMinDomain == 2
\* length of a --lang / --domain allow-list
MaxAllow == 2
\* largest mp.cpu_count()
MaxCpu == 2
\* largest processes argument
MaxProcesses == 3
\* largest number of chunks handed to the map function
MaxChunks == 2
\* largest number of bytes of a bucket file
MaxFileLen == 4
\* largest number of payload bytes of a marshalled record
MaxPayload == 2
\* largest number of files of the corpus of the two runs
MaxRunFiles == 3
\* largest value of an array cell of typecode 'H': the 16 bits of the cell
\* are cut down as the alphabet is, so that state numbers can exceed them
UShortMax == 3

-----------------------------------------------------------------------------
(* Generic helpers *)

Range(s) == {s[i] : i \in DOMAIN s}

Min(a, b) == IF a < b THEN a ELSE b

\* dict[key] = value
Put(d, k, v) == [x \in DOMAIN d \cup {k} |-> IF x = k THEN v ELSE d[x]]

EmptyDict == [x \in {} |-> 0]

\* the sequences that list every element of the finite set S exactly once
RECURSIVE Perms(_)
Perms(S) ==
  IF S = {} THEN {<<>>}
  ELSE UNION {{<<x>> \o p : p \in Perms(S \ {x})} : x \in S}

-----------------------------------------------------------------------------
(* scanner.py *)

\* Scanner.alphabet, cut down from the 256 byte values to two of them
alphabet == <<0, 1>>

AlphabetSize == Len(alphabet)

\* largest value of a cell of typecode 'L' (two cells of typecode 'H')
ULongMax == (UShortMax + 1) * (UShortMax + 1) - 1

\* the non-empty byte strings of length at most n
Strings(n) == UNION {[1..m -> Range(alphabet)] : m \in 1..n}

\* the duplicate-free lists of non-empty keywords of total length <= budget
RECURSIVE KeywordLists(_)
KeywordLists(budget) ==
  {<<>>} \cup
  UNION {{<<k>> \o rest : rest \in {r \in KeywordLists(budget - Len(k)) :
                                       k \notin Range(r)}} :
         k \in Strings(budget)}

\* Algorithm 2, lines 84-87: walk the existing goto edges of keyword a
RECURSIVE WalkGoto(_, _, _, _)
WalkGoto(g, a, st, j) ==
  IF j <= Len(a) /\ <<st, a[j]>> \in DOMAIN g
  THEN WalkGoto(g, a, g[<<st, a[j]>>], j + 1)
  ELSE [state |-> st, j |-> j]

\* Algorithm 2, lines 88-92: new states for a[p..]
RECURSIVE Extend(_, _, _, _, _)
Extend(g, a, st, p, ns) ==
  IF p > Len(a) THEN [goto |-> g, state |-> st, newstate |-> ns]
  ELSE Extend(Put(g, <<st, a[p]>>, ns + 1), a, ns + 1, p + 1, ns + 1)

\* defaultdict(set): output[s].add(a)
OutputAdd(out, s, a) ==
  Put(out, s, (IF s \in DOMAIN out THEN out[s] ELSE {}) \cup {a})

\* Algorithm 2, lines 82-93: enter the keywords kws[i..]
RECURSIVE EnterKeywords(_, _, _, _, _)
EnterKeywords(kws, i, g, out, ns) ==
  IF i > Len(kws) THEN [goto |-> g, output |-> out, newstate |-> ns]
  ELSE LET a == kws[i]
           w == WalkGoto(g, a, 0, 1)
           e == Extend(g, a, w.state, w.j, ns)
       IN  EnterKeywords(kws, i + 1, e.goto, OutputAdd(out, e.state, a),
                         e.newstate)

\* a completion of the root that sends the missing bytes to state 1
RECURSIVE RootLoopsToOne(_, _)
RootLoopsToOne(g, i) ==
  IF i > Len(alphabet) THEN g
  ELSE RootLoopsToOne(IF <<0, alphabet[i]>> \in DOMAIN g THEN g
                      ELSE Put(g, <<0, alphabet[i]>>, 1), i + 1)

\* lines 94-96: goto[(0,a)] = 0 for every byte with no edge from the root
RECURSIVE RootLoops(_, _)
RootLoops(g, i) ==
  IF i > Len(alphabet) THEN g
  ELSE RootLoops(IF <<0, alphabet[i]>> \in DOMAIN g THEN g
                 ELSE Put(g, <<0, alphabet[i]>>, 0), i + 1)

\* a loop that appends every depth-1 state twice
RECURSIVE RootChildrenTwice(_, _)
RootChildrenTwice(g, i) ==
  IF i > Len(alphabet) THEN <<>>
  ELSE (IF g[<<0, alphabet[i]>>] # 0
        THEN <<g[<<0, alphabet[i]>>], g[<<0, alphabet[i]>>]>> ELSE <<>>)
       \o RootChildrenTwice(g, i + 1)

\* lines 100-104 and 121-124: the depth-1 states, in alphabet order
RECURSIVE RootChildren(_, _)
RootChildren(g, i) ==
  IF i > Len(alphabet) THEN <<>>
  ELSE (IF g[<<0, alphabet[i]>>] # 0 THEN <<g[<<0, alphabet[i]>>]>> ELSE <<>>)
       \o RootChildren(g, i + 1)

\* lines 111-113: descend the failure chain until a goto edge on a exists
RECURSIVE Descend(_, _, _, _)
Descend(g, f, st, a) ==
  IF <<st, a>> \in DOMAIN g THEN st ELSE Descend(g, f, f[st], a)

\* lines 116-117: reading output[f] creates the entry; a non-empty output[f]
\* is merged into output[s]
PropagateNoOutput(out, s, f) ==
  IF f \in DOMAIN out THEN out ELSE Put(out, f, {})

PropagateOutput(out, s, f) ==
  LET o1 == IF f \in DOMAIN out THEN out ELSE Put(out, f, {})
  IN  IF o1[f] # {}
      THEN Put(o1, s, (IF s \in DOMAIN o1 THEN o1[s] ELSE {}) \cup o1[f])
      ELSE o1

\* Algorithm 3, lines 107-117: the bytes alphabet[i..] of state r
RECURSIVE Alg3Row(_, _, _, _, _, _)
Alg3Row(g, r, i, q, f, out) ==
  IF i > Len(alphabet) THEN [queue |-> q, fail |-> f, output |-> out]
  ELSE LET a == alphabet[i] IN
       IF <<r, a>> \in DOMAIN g
       THEN LET s  == g[<<r, a>>]
                fl == g[<<Descend(g, f, f[r], a), a>>]
            IN  Alg3Row(g, r, i + 1, Append(q, s), Put(f, s, fl),
                        PropagateOutput(out, s, fl))
       ELSE Alg3Row(g, r, i + 1, q, f, out)

\* an Algorithm 4 that reads the row of the root in place of the row of fail[r]
RECURSIVE Alg4RowFromRoot(_, _, _, _, _, _)
Alg4RowFromRoot(g, f, r, i, q, nm) ==
  IF i > Len(alphabet) THEN [queue |-> q, nextmove |-> nm]
  ELSE LET a == alphabet[i] IN
       IF <<r, a>> \in DOMAIN g
       THEN Alg4RowFromRoot(g, f, r, i + 1, Append(q, g[<<r, a>>]),
                            Put(nm, <<r, a>>, g[<<r, a>>]))
       ELSE Alg4RowFromRoot(g, f, r, i + 1, q, Put(nm, <<r, a>>, nm[<<0, a>>]))

\* Algorithm 4, lines 127-133: the bytes alphabet[i..] of state r
RECURSIVE Alg4Row(_, _, _, _, _, _)
Alg4Row(g, f, r, i, q, nm) ==
  IF i > Len(alphabet) THEN [queue |-> q, nextmove |-> nm]
  ELSE LET a == alphabet[i] IN
       IF <<r, a>> \in DOMAIN g
       THEN Alg4Row(g, f, r, i + 1, Append(q, g[<<r, a>>]),
                    Put(nm, <<r, a>>, g[<<r, a>>]))
       ELSE Alg4Row(g, f, r, i + 1, q, Put(nm, <<r, a>>, nm[<<f[r], a>>]))

\* lines 146-148: nextstate_iter, nextmove of state 0..newstate byte by byte
nextstate_iter(nm, ns) ==
  [i \in 1..((ns + 1) * AlphabetSize) |->
     nm[<<(i - 1) \div AlphabetSize, alphabet[((i - 1) % AlphabetSize) + 1]>>]]

\* largest value of an array cell of the typecode
CellMax(tc) == IF tc = "H" THEN UShortMax ELSE ULongMax

\* an array that keeps the low bits of a value that does not fit its cells
generate_wrapped(tc, nm, ns) ==
  LET vals == nextstate_iter(nm, ns) IN
    [raised |-> FALSE,
     arr |-> [i \in DOMAIN vals |-> vals[i] % (CellMax(tc) + 1)]]

\* lines 142-149: array.array(typecode, nextstate_iter()) raises
\* OverflowError for a value that does not fit a cell
generate_nm_arr(tc, nm, ns) ==
  LET vals == nextstate_iter(nm, ns) IN
    IF \A i \in DOMAIN vals : vals[i] <= CellMax(tc)
    THEN [raised |-> FALSE, arr |-> vals]
    ELSE [raised |-> TRUE, arr |-> <<>>]

\* lines 205-212 of scanner.py: dict((k,v) for (v,k) in enumerate(seq)); of
\* two equal items the later position stays
indexFromOne(seq) ==
  [k \in Range(seq) |->
     CHOOSE v \in DOMAIN seq :
       seq[v] = k /\ \A w \in DOMAIN seq : seq[w] = k => w <= v]

index(seq) ==
  [k \in Range(seq) |->
     (CHOOSE v \in DOMAIN seq :
        seq[v] = k /\ \A w \in DOMAIN seq : seq[w] = k => w <= v) - 1]

\* lines 199-201: the keys of raw_output replaced by their positions
translate(feat_index, raw_output) ==
  [k \in DOMAIN raw_output |->
     [j \in DOMAIN raw_output[k] |-> feat_index[raw_output[k][j]]]]

\* lines 156-160
getstate(arr, out) == <<arr, out>>

\* a __setstate__ that loses the output map
setstateNoOutput(value) ==
  [nm_arr |-> value[1], output |-> EmptyDict, nextmove |-> EmptyDict]

\* lines 162-170: cell i is the move of state i / 256 on letter chr(i % 256)
setstate(value) ==
  LET nm_array == value[1] IN
    [nm_arr |-> nm_array,
     output |-> value[2],
     nextmove |->
       [k \in {<<(i - 1) \div AlphabetSize,
                 alphabet[((i - 1) % AlphabetSize) + 1]>> : i \in DOMAIN nm_array}
          |-> nm_array[k[1] * AlphabetSize + k[2] + 1]]]

\* lines 175-177: the move on one letter and the keys it yields
search(arr, out, st, letter) ==
  LET nxt == arr[st * AlphabetSize + letter + 1] IN
    [state |-> nxt,
     keys |-> IF nxt \in DOMAIN out THEN out[nxt] ELSE <<>>]

----

\* build_scanner(features) is entered with a duplicate-free feature list
ScannerInit ==
  /\ keywords \in KeywordLists(MaxStates)
  /\ sphase = "alg2"
  /\ goto = EmptyDict
  /\ fail = EmptyDict
  /\ output = EmptyDict
  /\ newstate = 0
  /\ queue = <<>>
  /\ enq = <<>>
  /\ nextmove = EmptyDict
  /\ soutput = EmptyDict
  /\ nm_arr = <<>>
  /\ typecode = "none"
  /\ tk_output = EmptyDict
  /\ rebuilt = setstate(getstate(<<>>, EmptyDict))
  /\ consumed = <<>>
  /\ state = 0
  /\ yielded = <<>>
  /\ rstate = 0
  /\ ryielded = <<>>

\* build, lines 76-96
Algorithm2 ==
  /\ sphase = "alg2"
  /\ LET e == EnterKeywords(keywords, 1, EmptyDict, EmptyDict, 0) IN
       /\ goto' = RootLoops(e.goto, 1)
       /\ output' = e.output
       /\ newstate' = e.newstate
  /\ sphase' = "alg3init"
  /\ UNCHANGED <<keywords, fail, queue, enq, nextmove, soutput, nm_arr,
                 typecode, tk_output, rebuilt, consumed, state, yielded,
                 rstate, ryielded>>
  /\ UNCHANGED otherThanScanner

\* build, lines 99-104
Algorithm3Init ==
  /\ sphase = "alg3init"
  /\ queue' = RootChildren(goto, 1)
  /\ enq' = RootChildren(goto, 1)
  /\ fail' = [s \in Range(RootChildren(goto, 1)) |-> 0]
  /\ sphase' = "alg3"
  /\ UNCHANGED <<keywords, goto, output, newstate, nextmove, soutput, nm_arr,
                 typecode, tk_output, rebuilt, consumed, state, yielded,
                 rstate, ryielded>>
  /\ UNCHANGED otherThanScanner

\* build, lines 105-117: one turn of the while loop
Algorithm3Step ==
  /\ sphase = "alg3"
  /\ queue # <<>>
  /\ LET row == Alg3Row(goto, Head(queue), 1, Tail(queue), fail, output) IN
       /\ queue' = row.queue
       /\ enq' = enq \o SubSeq(row.queue, Len(queue), Len(row.queue))
       /\ fail' = row.fail
       /\ output' = row.output
  /\ UNCHANGED <<keywords, sphase, goto, newstate, nextmove, soutput, nm_arr,
                 typecode, tk_output, rebuilt, consumed, state, yielded,
                 rstate, ryielded>>
  /\ UNCHANGED otherThanScanner

\* build, lines 120-124
Algorithm4Init ==
  /\ sphase = "alg3"
  /\ queue = <<>>
  /\ nextmove' = [k \in {<<0, alphabet[i]>> : i \in DOMAIN alphabet} |-> goto[k]]
  /\ queue' = RootChildren(goto, 1)
  /\ enq' = RootChildren(goto, 1)
  /\ sphase' = "alg4"
  /\ UNCHANGED <<keywords, goto, fail, output, newstate, soutput, nm_arr,
                 typecode, tk_output, rebuilt, consumed, state, yielded,
                 rstate, ryielded>>
  /\ UNCHANGED otherThanScanner

\* build, lines 125-133: one turn of the while loop
Algorithm4Step ==
  /\ sphase = "alg4"
  /\ queue # <<>>
  /\ LET row == Alg4Row(goto, fail, Head(queue), 1, Tail(queue), nextmove) IN
       /\ queue' = row.queue
       /\ enq' = enq \o SubSeq(row.queue, Len(queue), Len(row.queue))
       /\ nextmove' = row.nextmove
  /\ UNCHANGED <<keywords, sphase, goto, fail, output, newstate, soutput,
                 nm_arr, typecode, tk_output, rebuilt, consumed, state, yielded,
                 rstate, ryielded>>
  /\ UNCHANGED otherThanScanner

\* build, lines 137-154: the output tuples (a set iterates in an order the
\* program does not fix) and the packed table, 'H' first and 'L' after an
\* OverflowError
Pack ==
  /\ sphase = "alg4"
  /\ queue = <<>>
  /\ soutput' \in [DOMAIN output -> UNION {Perms(output[k]) : k \in DOMAIN output}]
  /\ \A k \in DOMAIN output : soutput'[k] \in Perms(output[k])
  /\ LET h == generate_nm_arr("H", nextmove, newstate)
         l == generate_nm_arr("L", nextmove, newstate)
     IN  IF ~h.raised
         THEN nm_arr' = h.arr /\ typecode' = "H" /\ sphase' = "packed"
         ELSE IF ~l.raised
         THEN nm_arr' = l.arr /\ typecode' = "L" /\ sphase' = "packed"
         ELSE nm_arr' = nm_arr /\ typecode' = typecode
              /\ sphase' = "OverflowError"
  /\ UNCHANGED <<keywords, goto, fail, output, newstate, queue, enq, nextmove,
                 tk_output, rebuilt, consumed, state, yielded, rstate, ryielded>>
  /\ UNCHANGED otherThanScanner

\* build_scanner, lines 190-202: the output map in feature positions
Translate ==
  /\ sphase = "packed"
  /\ tk_output' = translate(index(keywords), getstate(nm_arr, soutput)[2])
  /\ sphase' = "translated"
  /\ UNCHANGED <<keywords, goto, fail, output, newstate, queue, enq, nextmove,
                 soutput, nm_arr, typecode, rebuilt, consumed, state, yielded,
                 rstate, ryielded>>
  /\ UNCHANGED otherThanScanner

\* lines 156-170: a second Scanner made by __setstate__ from the
\* __getstate__ of the built one
SetState ==
  /\ sphase = "translated"
  /\ rebuilt' = setstate(getstate(nm_arr, soutput))
  /\ sphase' = "search"
  /\ consumed' = <<>>
  /\ state' = 0
  /\ yielded' = <<>>
  /\ rstate' = 0
  /\ ryielded' = <<>>
  /\ UNCHANGED <<keywords, goto, fail, output, newstate, queue, enq, nextmove,
                 soutput, nm_arr, typecode, tk_output>>
  /\ UNCHANGED otherThanScanner

\* search, lines 174-177: one byte of the input, read by the built Scanner
\* and by the rebuilt one
SearchStep ==
  /\ sphase = "search"
  /\ Len(consumed) < MaxInputLen
  /\ \E letter \in Range(alphabet) :
       LET m == search(nm_arr, soutput, state, letter)
           r == search(rebuilt.nm_arr, rebuilt.output, rstate, letter)
       IN  /\ consumed' = Append(consumed, letter)
           /\ state' = m.state
           /\ yielded' = yielded \o m.keys
           /\ rstate' = r.state
           /\ ryielded' = ryielded \o r.keys
  /\ UNCHANGED <<keywords, sphase, goto, fail, output, newstate, queue, enq,
                 nextmove, soutput, nm_arr, typecode, tk_output, rebuilt>>
  /\ UNCHANGED otherThanScanner

ScannerNext ==
  \/ Algorithm2
  \/ Algorithm3Init
  \/ Algorithm3Step
  \/ Algorithm4Init
  \/ Algorithm4Step
  \/ Pack
  \/ Translate
  \/ SetState
  \/ SearchStep

ScannerIdle ==
  /\ keywords = <<>>
  /\ sphase = "idle"
  /\ goto = EmptyDict
  /\ fail = EmptyDict
  /\ output = EmptyDict
  /\ newstate = 0
  /\ queue = <<>>
  /\ enq = <<>>
  /\ nextmove = EmptyDict
  /\ soutput = EmptyDict
  /\ nm_arr = <<>>
  /\ typecode = "none"
  /\ tk_output = EmptyDict
  /\ rebuilt = setstate(getstate(<<>>, EmptyDict))
  /\ consumed = <<>>
  /\ state = 0
  /\ yielded = <<>>
  /\ rstate = 0
  /\ ryielded = <<>>

-----------------------------------------------------------------------------
(* common.py: Enumerator, and index.py: CorpusIndexer *)

\* the labels of the corpus directories <root>/<domain>/<lang>
Domains == {"d1", "d2"}

Langs == {"de", "en", "fr"}

\* an optional list argument: None, or a list
None == [given |-> FALSE, list |-> <<>>]

Some(l) == [given |-> TRUE, list |-> l]

\* the values of an "append" option: None, or a non-empty duplicate-free list
AllowLists(S) ==
  {None} \cup
  {Some(l) : l \in {q \in UNION {[1..n -> S] : n \in 1..MaxAllow} :
                      \A i, j \in DOMAIN q : i # j => q[i] # q[j]}}

\* --proportion: 1.0, a value strictly between 0 and 1, or a value <= 0
Proportions == {"one", "between", "nonpositive"}

\* os.walk, top-down: the files of a directory come together, and so do the
\* directories of a domain; docname numbers the files of a directory
NextFiles(w) ==
  LET seenDirs == {<<w[i].domain, w[i].lang>> : i \in DOMAIN w}
      seenDoms == {w[i].domain : i \in DOMAIN w}
      last     == w[Len(w)]
      count(d, l) == Cardinality({i \in DOMAIN w : w[i].domain = d /\ w[i].lang = l})
  IN  {[domain |-> d, lang |-> l, docname |-> count(d, l) + 1] :
         <<d, l>> \in {dl \in Domains \X Langs :
            \/ w = <<>>
            \/ dl = <<last.domain, last.lang>>
            \/ /\ dl \notin seenDirs
               /\ dl[1] = last.domain \/ dl[1] \notin seenDoms}}

\* the number of selected files after which the walk of the model ends
FileBound == IF pc = "idle" THEN MaxFiles ELSE MaxTrainFiles

\* os.path.join(dirpath, docname)
Path(f) == <<f.domain, f.lang, f.docname>>

\* line 107: random.random() < self.proportion, random() being in [0, 1)
Admissions(p) ==
  CASE p = "one" -> {TRUE}
    [] p = "nonpositive" -> {FALSE}
    [] OTHER -> {TRUE, FALSE}

\* Enumerator.__call__ under defaultdict: the next id is the number of keys
\* handed out so far
Enumerate(idx, k) ==
  IF k \in DOMAIN idx THEN idx ELSE Put(idx, k, Cardinality(DOMAIN idx))

\* dict((k,v) for v,k in enumerate(seq))
EnumerateList(seq) ==
  [k \in Range(seq) |-> (CHOOSE i \in DOMAIN seq : seq[i] = k) - 1]

\* defaultdict(set): coverage_index[domain].add(lang)
CoverageAdd(cov, d, l) ==
  Put(cov, d, (IF d \in DOMAIN cov THEN cov[d] ELSE {}) \cup {l})

\* lines 138-141
lang_domain_count(cov) ==
  [l \in UNION {cov[d] : d \in DOMAIN cov} |->
     Cardinality({d \in DOMAIN cov : l \in cov[d]})]

\* line 142
reject_langs(cov, md) ==
  {l \in DOMAIN lang_domain_count(cov) : lang_domain_count(cov)[l] < md}

\* the keys of an enumerating dict in insertion order, which is id order
RECURSIVE KeysInOrder(_)
KeysInOrder(idx) ==
  IF DOMAIN idx = {} THEN <<>>
  ELSE LET k == CHOOSE x \in DOMAIN idx :
                  \A y \in DOMAIN idx : idx[x] <= idx[y]
       IN  <<k>> \o KeysInOrder([x \in DOMAIN idx \ {k} |-> idx[x]])

\* lines 149-154: new_lang_index and lm over the keys ks[i..]
KeepOldIds(idx, ks, i, reject_ids, new_index, lm) ==
  [new_lang_index |-> [k \in {x \in DOMAIN idx : idx[x] \notin reject_ids}
                         |-> idx[k]],
   lm |-> [v \in {idx[x] : x \in DOMAIN idx} \ reject_ids |-> v]]

RECURSIVE Renumber(_, _, _, _, _, _)
Renumber(idx, ks, i, reject_ids, new_index, lm) ==
  IF i > Len(ks) THEN [new_lang_index |-> new_index, lm |-> lm]
  ELSE LET k == ks[i]
           v == idx[k]
       IN  IF v \notin reject_ids
           THEN LET n == Enumerate(new_index, k)
                IN  Renumber(idx, ks, i + 1, reject_ids, n, Put(lm, v, n[k]))
           ELSE Renumber(idx, ks, i + 1, reject_ids, new_index, lm)

\* line 157
RECURSIVE RemapItems(_, _)
RemapItems(its, lm) ==
  IF its = <<>> THEN <<>>
  ELSE LET it == Head(its) IN
       (IF it[2] \in DOMAIN lm THEN <<<<it[1], lm[it[2]], it[3], it[4]>>>>
        ELSE <<>>) \o RemapItems(Tail(its), lm)

----

\* CorpusIndexer.__init__, lines 80-97
IndexerStart(md, p, ls, ds) ==
  /\ istatus = "idle"
  /\ min_domain' = md
  /\ proportion' = p
  /\ langs' = ls
  /\ domains' = ds
  /\ lang_index' = IF ls.given THEN EnumerateList(ls.list) ELSE EmptyDict
  /\ lang_index_type' = IF ls.given THEN "set" ELSE "defaultdict"
  /\ domain_index' = IF ds.given THEN EnumerateList(ds.list) ELSE EmptyDict
  /\ domain_index_type' = IF ds.given THEN "dict" ELSE "defaultdict"
  /\ coverage_index' = EmptyDict
  /\ items' = <<>>
  /\ walked' = <<>>
  /\ istatus' = "index"

IndexerIdle ==
  /\ walked = <<>>
  /\ min_domain = 1
  /\ proportion = "one"
  /\ langs = None
  /\ domains = None
  /\ lang_index = EmptyDict
  /\ lang_index_type = "defaultdict"
  /\ domain_index = EmptyDict
  /\ domain_index_type = "defaultdict"
  /\ coverage_index = EmptyDict
  /\ items = <<>>
  /\ istatus = "idle"

\* a CorpusIndexer under construction, after line 97
IndexerInit ==
  /\ min_domain \in 0..MaxMinDomain
  /\ proportion \in Proportions
  /\ langs \in AllowLists(Langs)
  /\ domains \in AllowLists(Domains)
  /\ lang_index = IF langs.given THEN EnumerateList(langs.list) ELSE EmptyDict
  /\ lang_index_type = IF langs.given THEN "set" ELSE "defaultdict"
  /\ domain_index = IF domains.given THEN EnumerateList(domains.list) ELSE EmptyDict
  /\ domain_index_type = IF domains.given THEN "dict" ELSE "defaultdict"
  /\ coverage_index = EmptyDict
  /\ items = <<>>
  /\ walked = <<>>
  /\ istatus = "index"

\* index, lines 106-130: one file of the walk
IndexFile ==
  /\ istatus = "index"
  /\ \E f \in NextFiles(walked), admitted \in Admissions(proportion) :
       /\ admitted => Len(walked) < FileBound
       /\ walked' = IF admitted THEN Append(walked, f) ELSE walked
       /\ \/ \* line 107: the file is not selected
             /\ ~admitted
             /\ UNCHANGED <<lang_index, domain_index, coverage_index, items, istatus>>
          \/ \* line 119 raises KeyError: domain outside the pre-specified set
             /\ admitted
             /\ domain_index_type = "dict"
             /\ f.domain \notin DOMAIN domain_index
             /\ UNCHANGED <<lang_index, domain_index, coverage_index, items, istatus>>
          \/ \* line 120 subscripts a set: TypeError, which line 121 does not catch
             /\ admitted
             /\ domain_index_type = "defaultdict" \/ f.domain \in DOMAIN domain_index
             /\ lang_index_type = "set"
             /\ domain_index' = IF domain_index_type = "defaultdict"
                                THEN Enumerate(domain_index, f.domain)
                                ELSE domain_index
             /\ istatus' = "TypeError"
             /\ UNCHANGED <<lang_index, coverage_index, items>>
          \/ \* lines 119-130: both ids are found, the item is recorded
             /\ admitted
             /\ domain_index_type = "defaultdict" \/ f.domain \in DOMAIN domain_index
             /\ lang_index_type = "defaultdict"
             /\ LET di == IF domain_index_type = "defaultdict"
                          THEN Enumerate(domain_index, f.domain)
                          ELSE domain_index
                    li == Enumerate(lang_index, f.lang)
                IN  /\ domain_index' = di
                    /\ lang_index' = li
                    /\ coverage_index' = CoverageAdd(coverage_index, f.domain, f.lang)
                    /\ items' = Append(items, <<di[f.domain], li[f.lang],
                                                f.docname, Path(f)>>)
             /\ UNCHANGED istatus
  /\ UNCHANGED <<min_domain, proportion, langs, domains,
                 lang_index_type, domain_index_type>>
  /\ UNCHANGED otherThanIndexer

\* prune_min_domain, lines 133-159, and the return of __init__
PruneMinDomain ==
  /\ istatus = "index"
  /\ LET rej == reject_langs(coverage_index, min_domain) IN
       \/ \* line 145: nothing to reject
          /\ rej = {}
          /\ istatus' = "done"
          /\ UNCHANGED <<lang_index, lang_index_type, items>>
       \/ \* line 147 subscripts a set
          /\ rej # {}
          /\ lang_index_type = "set"
          /\ istatus' = "TypeError"
          /\ UNCHANGED <<lang_index, lang_index_type, items>>
       \/ \* lines 147-159
          /\ rej # {}
          /\ lang_index_type # "set"
          /\ LET reject_ids == {lang_index[l] : l \in rej}
                 r == Renumber(lang_index, KeysInOrder(lang_index), 1,
                               reject_ids, EmptyDict, EmptyDict)
             IN  /\ items' = RemapItems(items, r.lm)
                 /\ lang_index' = r.new_lang_index
                 /\ lang_index_type' = "defaultdict"
          /\ istatus' = "done"
  /\ UNCHANGED <<walked, min_domain, proportion, langs, domains,
                 domain_index, domain_index_type, coverage_index>>
  /\ UNCHANGED otherThanIndexer

IndexerNext ==
  \/ IndexFile
  \/ PruneMinDomain

-----------------------------------------------------------------------------
(* train.py *)

TrainIdle ==
  /\ args = [df_feats |-> FALSE, ld_feats |-> FALSE, debug |-> FALSE,
             temp |-> FALSE, chunksize |-> 1, buckets |-> 1, min_domain |-> 1,
             proportion |-> "one", lang |-> None, domain |-> None]
  /\ pc = "idle"
  /\ fs = {}
  /\ created = {}
  /\ b_dirs = <<>>
  /\ feature_path = "undefined"
  /\ DFfeats = "undefined"
  /\ tokenized = {}
  /\ calls = <<>>

\* an entry of the file system: a named directory or file, or the bucket
\* directory number `bucket' that build_index made in its pass number `pass'
Entry(name) == [name |-> name, pass |-> 0, bucket |-> 0]

Bucket(p, i) == [name |-> "bucket", pass |-> p, bucket |-> i]

\* lines 97-101
model_dir == Entry("model_dir")

\* lines 148-151
buckets_dir(a) == IF a.temp THEN Entry("temp_dir") ELSE Entry("model_dir/buckets")

\* common.py makedir: os.makedirs, an existing directory is no error
makedir(f, path) == f \cup {path}

\* shutil.rmtree: the directory and what it holds; the bucket directories are
\* held by the buckets directory
rmtree(f, path) ==
  IF path.name \in {"temp_dir", "model_dir/buckets"}
  THEN {e \in f : e # path /\ e.name # "bucket"}
  ELSE f \ {path}

\* a loop that removes nothing
KeepAll(f, dirs) == f

\* lines 212-213 and 301-302: for b in b_dirs: shutil.rmtree(b)
RECURSIVE rmtreeAll(_, _)
rmtreeAll(f, dirs) ==
  IF dirs = <<>> THEN f ELSE rmtreeAll(rmtree(f, Head(dirs)), Tail(dirs))

\* a test that never fires
NotExclusive(a) == FALSE

\* lines 94-95
MutuallyExclusive(a) == a.df_feats /\ a.ld_feats

\* common.py chunk, for chunksize >= 0: an empty slice ends the iteration
RECURSIVE chunk(_, _)
chunk(seq, chunksize) ==
  LET c == SubSeq(seq, 1, Min(chunksize, Len(seq))) IN
    IF c = <<>> THEN <<>>
    ELSE <<c>> \o chunk(SubSeq(seq, Len(c) + 1, Len(seq)), chunksize)

\* build_index (tokenize.py): fresh bucket directories under the buckets
\* directory, one per bucket
NewBuckets(p, n) == [i \in 1..n |-> Bucket(p, i)]

\* build_index (tokenize.py): the documents of every chunk are tokenized
TokenizedBy(its, chunksize) ==
  UNION {{c[i][4] : i \in DOMAIN c} : c \in Range(chunk(its, chunksize))}

\* the files --debug writes
DebugFiles(a, names) == IF a.debug THEN {Entry(n) : n \in names} ELSE {}

Crashes == {"TypeError", "AttributeError", "NameError", "IndexError"}

----

\* after parser.parse_args(), line 92
TrainInit ==
  /\ args \in [df_feats : BOOLEAN, ld_feats : BOOLEAN, debug : BOOLEAN,
               temp : BOOLEAN, chunksize : 0..MaxChunkSize,
               buckets : 1..MaxBuckets, min_domain : 0..1,
               proportion : {"one", "nonpositive"},
               lang : AllowLists(Langs), domain : {None}]
  /\ pc = "start"
  /\ fs \in {{Entry("corpus")}} \cup
            (IF args.temp THEN {{Entry("corpus"), Entry("temp_dir")}} ELSE {})
  /\ created = {}
  /\ b_dirs = <<>>
  /\ feature_path = "undefined"
  /\ DFfeats = "undefined"
  /\ tokenized = {}
  /\ calls = <<>>

\* lines 94-95: parser.error
ConfigError ==
  /\ pc = "start"
  /\ MutuallyExclusive(args)
  /\ pc' = "config_error"
  /\ UNCHANGED <<args, fs, created, b_dirs, feature_path, DFfeats, tokenized, calls>>
  /\ UNCHANGED otherThanTrain

\* lines 97-111
MakeModelDir ==
  /\ pc = "start"
  /\ ~MutuallyExclusive(args)
  /\ fs' = makedir(fs, model_dir)
  /\ created' = created \cup ({model_dir} \ fs)
  /\ pc' = "construct"
  /\ UNCHANGED <<args, b_dirs, feature_path, DFfeats, tokenized, calls>>
  /\ UNCHANGED otherThanTrain

\* lines 113-114: CorpusIndexer(...) begins; IndexFile and PruneMinDomain
\* carry it on
ConstructIndexer ==
  /\ pc = "construct"
  /\ IndexerStart(args.min_domain, args.proportion, args.lang, args.domain)
  /\ pc' = "indexing"
  /\ UNCHANGED <<args, fs, created, b_dirs, feature_path, DFfeats, tokenized, calls>>
  /\ UNCHANGED otherThanIndexerTrain

\* lines 113-114: the constructor raised
IndexerRaises ==
  /\ pc = "indexing"
  /\ istatus = "TypeError"
  /\ pc' = "TypeError"
  /\ UNCHANGED <<args, fs, created, b_dirs, feature_path, DFfeats, tokenized, calls>>
  /\ UNCHANGED otherThanTrain

\* line 119: lang_index.items() on a set
SummaryRaises ==
  /\ pc = "indexing"
  /\ istatus = "done"
  /\ lang_index_type = "set"
  /\ pc' = "AttributeError"
  /\ UNCHANGED <<args, fs, created, b_dirs, feature_path, DFfeats, tokenized, calls>>
  /\ UNCHANGED otherThanTrain

\* lines 116-155: the summary, the debug output and makedir(buckets_dir)
MakeBucketsDir ==
  /\ pc = "indexing"
  /\ istatus = "done"
  /\ lang_index_type # "set"
  /\ fs' = makedir(fs, buckets_dir(args))
             \cup DebugFiles(args, {"lang_index", "domain_index", "paths"})
  /\ created' = created \cup ({buckets_dir(args)} \ fs)
  /\ pc' = "features"
  /\ UNCHANGED <<args, b_dirs, feature_path, DFfeats, tokenized, calls>>
  /\ UNCHANGED otherThanTrain

\* lines 157-159
ReadLDFeats ==
  /\ pc = "features"
  /\ args.ld_feats
  /\ calls' = Append(calls, "read_features")
  /\ pc' = "scanner"
  /\ UNCHANGED <<args, fs, created, b_dirs, feature_path, DFfeats, tokenized>>
  /\ UNCHANGED otherThanTrain

\* lines 161-187: the tokenizer and the first pass
FirstPass ==
  /\ pc = "features"
  /\ ~args.ld_feats
  /\ DFfeats' = IF args.df_feats THEN "custom" ELSE "None"
  /\ calls' = calls \o (IF args.df_feats THEN <<"read_features">> ELSE <<>>)
                    \o <<"build_index">>
  /\ b_dirs' = NewBuckets(1, args.buckets)
  /\ fs' = fs \cup Range(NewBuckets(1, args.buckets))
              \cup DebugFiles(args, {"bucketlist"})
  /\ created' = created \cup Range(NewBuckets(1, args.buckets))
  /\ tokenized' = TokenizedBy(items, args.chunksize)
  /\ pc' = "tally"
  /\ UNCHANGED <<args, feature_path>>
  /\ UNCHANGED otherThanTrain

\* lines 189-207
TallySelect ==
  /\ pc = "tally"
  /\ calls' = calls
       \o (IF DFfeats = "None" \/ args.debug THEN <<"tally">> ELSE <<>>)
       \o (IF DFfeats = "None" THEN <<"ngram_select">> ELSE <<>>)
  /\ DFfeats' = IF DFfeats = "None" THEN "selected" ELSE DFfeats
  /\ feature_path' = IF args.debug THEN "DFfeats" ELSE feature_path
  /\ fs' = fs \cup DebugFiles(args, {"DF_all", "DFfeats"})
  /\ pc' = "dispose"
  /\ UNCHANGED <<args, created, b_dirs, tokenized>>
  /\ UNCHANGED otherThanTrain

\* lines 209-213
DisposeFirstPass ==
  /\ pc = "dispose"
  /\ fs' = IF ~args.debug THEN rmtreeAll(fs, b_dirs) ELSE fs
  /\ pc' = "second"
  /\ UNCHANGED <<args, created, b_dirs, feature_path, DFfeats, tokenized, calls>>
  /\ UNCHANGED otherThanTrain

\* lines 215-221
SecondPass ==
  /\ pc = "second"
  /\ calls' = Append(calls, "build_index")
  /\ b_dirs' = NewBuckets(2, args.buckets)
  /\ fs' = fs \cup Range(NewBuckets(2, args.buckets))
  /\ created' = created \cup Range(NewBuckets(2, args.buckets))
  /\ pc' = "ig"
  /\ UNCHANGED <<args, feature_path, DFfeats, tokenized>>
  /\ UNCHANGED otherThanTrain

\* lines 223-266: information gain for languages and domains, LD selection
ComputeIGSelectLD ==
  /\ pc = "ig"
  /\ calls' = calls \o <<"compute_IG", "compute_IG", "select_LD_features">>
  /\ feature_path' = IF args.debug THEN "LDfeats" ELSE feature_path
  /\ fs' = fs \cup DebugFiles(args, {"IGweights.lang.bin", "IGweights.domain",
                                     "LDfeats", "LDfeats.perlang"})
  /\ DFfeats' = "None"
  /\ pc' = "scanner"
  /\ UNCHANGED <<args, created, b_dirs, tokenized>>
  /\ UNCHANGED otherThanTrain

\* lines 268-271: build_scanner; with --debug, feature_path is read and is
\* bound only by lines 205 and 256
ScannerPathRaises ==
  /\ pc = "scanner"
  /\ args.debug
  /\ feature_path = "undefined"
  /\ calls' = Append(calls, "build_scanner")
  /\ pc' = "NameError"
  /\ UNCHANGED <<args, fs, created, b_dirs, feature_path, DFfeats, tokenized>>
  /\ UNCHANGED otherThanTrain

\* lines 268-277
BuildScanner ==
  /\ pc = "scanner"
  /\ args.debug => feature_path # "undefined"
  /\ calls' = Append(calls, "build_scanner")
  /\ fs' = fs \cup DebugFiles(args, {"LDfeats.scanner"})
  /\ pc' = "nb"
  /\ UNCHANGED <<args, created, b_dirs, feature_path, DFfeats, tokenized>>
  /\ UNCHANGED otherThanTrain

\* lines 279-284: zip(*items)[2] of an empty item list
PathsRaises ==
  /\ pc = "nb"
  /\ items = <<>>
  /\ calls' = Append(calls, "generate_cm")
  /\ pc' = "IndexError"
  /\ UNCHANGED <<args, fs, created, b_dirs, feature_path, DFfeats, tokenized>>
  /\ UNCHANGED otherThanTrain

\* lines 279-288
TrainNB ==
  /\ pc = "nb"
  /\ items # <<>>
  /\ calls' = calls \o <<"generate_cm", "learn_pc", "learn_ptc">>
  /\ pc' = "write"
  /\ UNCHANGED <<args, fs, created, b_dirs, feature_path, DFfeats, tokenized>>
  /\ UNCHANGED otherThanTrain

\* lines 290-297
WriteModel ==
  /\ pc = "write"
  /\ fs' = fs \cup {Entry("model")}
  /\ pc' = "cleanup"
  /\ UNCHANGED <<args, created, b_dirs, feature_path, DFfeats, tokenized, calls>>
  /\ UNCHANGED otherThanTrain

\* lines 299-306
Cleanup ==
  /\ pc = "cleanup"
  /\ fs' = IF ~args.debug /\ ~args.ld_feats
           THEN LET f1 == rmtreeAll(fs, b_dirs)
                IN  IF ~args.temp THEN rmtree(f1, buckets_dir(args)) ELSE f1
           ELSE fs
  /\ pc' = "done"
  /\ UNCHANGED <<args, created, b_dirs, feature_path, DFfeats, tokenized, calls>>
  /\ UNCHANGED otherThanTrain

TrainNext ==
  \/ ConfigError
  \/ MakeModelDir
  \/ ConstructIndexer
  \/ IndexFile
  \/ PruneMinDomain
  \/ IndexerRaises
  \/ SummaryRaises
  \/ MakeBucketsDir
  \/ ReadLDFeats
  \/ FirstPass
  \/ TallySelect
  \/ DisposeFirstPass
  \/ SecondPass
  \/ ComputeIGSelectLD
  \/ ScannerPathRaises
  \/ BuildScanner
  \/ PathsRaises
  \/ TrainNB
  \/ WriteModel
  \/ Cleanup

-----------------------------------------------------------------------------
(* common.py: MapPool *)

PoolIdle ==
  /\ processes = None
  /\ cpu_count = 1
  /\ initializer = FALSE
  /\ initargs = FALSE
  /\ n_processes = 0
  /\ mpc = "idle"
  /\ pool = "none"
  /\ init_calls = 0
  /\ called = FALSE
  /\ nchunks = 0
  /\ tstate = <<>>
  /\ results = <<>>

\* the processes argument: None, or an integer
SomeInt(n) == [given |-> TRUE, list |-> <<n>>]

\* lines 129-130
effective_processes(p, cpus) == IF p.given THEN p.list[1] ELSE cpus + 4

\* a context manager that leaves the pool running
closingLeavesOpen(p) == p

\* line 133: contextlib.closing calls pool.close() when the block is left
closing(p) == "CLOSE"

\* the tasks that a worker process is running
RunningInPool == {i \in DOMAIN tstate : tstate[i] = "running_worker"}

\* the worker processes run the initializer with *initargs when they start;
\* with an initializer and no initargs none of them gets to take a task
WorkersUsable == initializer => initargs

\* Pool.join returns when the worker processes have exited, which they do
\* once the pool is closed and no task is left
WorkersExited ==
  /\ pool = "CLOSE"
  /\ \A i \in DOMAIN tstate : tstate[i] = "done"

\* a call MapPool(processes, initializer, initargs) about to be entered
PoolInit ==
  /\ processes \in {None} \cup {SomeInt(n) : n \in 0..MaxProcesses}
  /\ cpu_count \in 1..MaxCpu
  /\ initializer \in BOOLEAN
  /\ initargs \in BOOLEAN
  /\ n_processes = 0
  /\ mpc = "call"
  /\ pool = "none"
  /\ init_calls = 0
  /\ called = FALSE
  /\ nchunks = 0
  /\ tstate = <<>>
  /\ results = <<>>

\* lines 129-135: more than one process, the pool is made and f maps on it
EnterPool ==
  /\ mpc = "call"
  /\ effective_processes(processes, cpu_count) > 1
  /\ n_processes' = effective_processes(processes, cpu_count)
  /\ pool' = "RUN"
  /\ mpc' = "body"
  /\ UNCHANGED <<processes, cpu_count, initializer, initargs, init_calls,
                 called, nchunks, tstate, results>>
  /\ UNCHANGED otherThanPool

\* lines 129-140: one process, the initializer runs here and f is imap
EnterSequential ==
  /\ mpc = "call"
  /\ effective_processes(processes, cpu_count) <= 1
  /\ initializer => initargs
  /\ n_processes' = effective_processes(processes, cpu_count)
  /\ init_calls' = IF initializer THEN init_calls + 1 ELSE init_calls
  /\ mpc' = "body"
  /\ UNCHANGED <<processes, cpu_count, initializer, initargs, pool, called,
                 nchunks, tstate, results>>
  /\ UNCHANGED otherThanPool

\* line 138: initializer(*initargs) with initargs None
EnterRaises ==
  /\ mpc = "call"
  /\ effective_processes(processes, cpu_count) <= 1
  /\ initializer /\ ~initargs
  /\ n_processes' = effective_processes(processes, cpu_count)
  /\ mpc' = "TypeError"
  /\ UNCHANGED <<processes, cpu_count, initializer, initargs, pool, init_calls,
                 called, nchunks, tstate, results>>
  /\ UNCHANGED otherThanPool

\* the body calls f(fn, chunks): imap is lazy, imap_unordered hands every
\* chunk to the pool
CallF ==
  /\ mpc = "body"
  /\ ~called
  /\ \E n \in 0..MaxChunks :
       /\ nchunks' = n
       /\ tstate' = [i \in 1..n |-> IF pool = "none" THEN "new" ELSE "queued"]
  /\ called' = TRUE
  /\ UNCHANGED <<processes, cpu_count, initializer, initargs, n_processes, mpc,
                 pool, init_calls, results>>
  /\ UNCHANGED otherThanPool

\* line 139, imap: the body asks for the next result and fn starts on the
\* next chunk in the calling process
ImapStart ==
  /\ mpc = "body"
  /\ pool = "none"
  /\ called
  /\ \A i \in DOMAIN tstate : tstate[i] # "running_caller"
  /\ \E i \in DOMAIN tstate :
       /\ tstate[i] = "new"
       /\ \A j \in 1..(i - 1) : tstate[j] = "done"
       /\ tstate' = [tstate EXCEPT ![i] = "running_caller"]
  /\ UNCHANGED <<processes, cpu_count, initializer, initargs, n_processes, mpc,
                 pool, init_calls, called, nchunks, results>>
  /\ UNCHANGED otherThanPool

\* line 139, imap: fn returns and the body receives the result
ImapFinish ==
  /\ mpc = "body"
  /\ \E i \in DOMAIN tstate :
       /\ tstate[i] = "running_caller"
       /\ tstate' = [tstate EXCEPT ![i] = "done"]
       /\ results' = Append(results, i)
  /\ UNCHANGED <<processes, cpu_count, initializer, initargs, n_processes, mpc,
                 pool, init_calls, called, nchunks>>
  /\ UNCHANGED otherThanPool

\* line 134: a free worker process takes a chunk
WorkerStart ==
  /\ pool \in {"RUN", "CLOSE"}
  /\ WorkersUsable
  /\ Cardinality(RunningInPool) < n_processes
  /\ \E i \in DOMAIN tstate :
       /\ tstate[i] = "queued"
       /\ tstate' = [tstate EXCEPT ![i] = "running_worker"]
  /\ UNCHANGED <<processes, cpu_count, initializer, initargs, n_processes, mpc,
                 pool, init_calls, called, nchunks, results>>
  /\ UNCHANGED otherThanPool

\* line 134: a worker process finishes its chunk
WorkerFinish ==
  /\ \E i \in DOMAIN tstate :
       /\ tstate[i] = "running_worker"
       /\ tstate' = [tstate EXCEPT ![i] = "done"]
  /\ UNCHANGED <<processes, cpu_count, initializer, initargs, n_processes, mpc,
                 pool, init_calls, called, nchunks, results>>
  /\ UNCHANGED otherThanPool

\* line 134, imap_unordered: the body receives a result that is ready
BodyReceives ==
  /\ mpc = "body"
  /\ pool = "RUN"
  /\ \E i \in DOMAIN tstate :
       /\ tstate[i] = "done"
       /\ i \notin Range(results)
       /\ results' = Append(results, i)
  /\ UNCHANGED <<processes, cpu_count, initializer, initargs, n_processes, mpc,
                 pool, init_calls, called, nchunks, tstate>>
  /\ UNCHANGED otherThanPool

\* lines 133-135 and 140: the body ends normally; no task runs in the body
\* while it ends
BodyEnds ==
  /\ mpc = "body"
  /\ \A i \in DOMAIN tstate : tstate[i] # "running_caller"
  /\ IF pool = "none"
     THEN pool' = pool /\ mpc' = "left"
     ELSE pool' = closing(pool) /\ mpc' = "closed"
  /\ UNCHANGED <<processes, cpu_count, initializer, initargs, n_processes,
                 init_calls, called, nchunks, tstate, results>>
  /\ UNCHANGED otherThanPool

\* lines 133-135 and 140: the body raises; the exception leaves MapPool at
\* the yield, through closing() when there is a pool
BodyRaises ==
  /\ mpc = "body"
  /\ pool' = IF pool = "none" THEN pool ELSE closing(pool)
  /\ mpc' = "raised"
  /\ UNCHANGED <<processes, cpu_count, initializer, initargs, n_processes,
                 init_calls, called, nchunks, tstate, results>>
  /\ UNCHANGED otherThanPool

\* lines 142-143: pool.join() is called; on a pool that is still running
\* it raises
Join ==
  /\ mpc = "closed"
  /\ mpc' = IF pool = "CLOSE" THEN "joining" ELSE "ValueError"
  /\ UNCHANGED <<processes, cpu_count, initializer, initargs, n_processes,
                 pool, init_calls, called, nchunks, tstate, results>>
  /\ UNCHANGED otherThanPool

\* line 143: pool.join() returns
JoinReturns ==
  /\ mpc = "joining"
  /\ WorkersExited
  /\ pool' = "joined"
  /\ mpc' = "left"
  /\ UNCHANGED <<processes, cpu_count, initializer, initargs, n_processes,
                 init_calls, called, nchunks, tstate, results>>
  /\ UNCHANGED otherThanPool

PoolNext ==
  \/ EnterPool
  \/ EnterSequential
  \/ EnterRaises
  \/ CallF
  \/ ImapStart
  \/ ImapFinish
  \/ WorkerStart
  \/ WorkerFinish
  \/ BodyReceives
  \/ BodyEnds
  \/ BodyRaises
  \/ Join
  \/ JoinReturns

-----------------------------------------------------------------------------
(* common.py: unmarshal_iter *)

UnmarshalIdle ==
  /\ ufile = <<>>
  /\ upos = 0
  /\ uyielded = <<>>
  /\ ustatus = "idle"

\* a type code marshal does not know
BadCode == MaxPayload + 1

\* the bytes of a file: a record is a type code n <= MaxPayload followed by
\* n payload bytes
MarshalBytes == 0..BadCode

\* line 49, marshal.load(f) at offset pos: EOFError at the end of the file
\* and inside a record that is cut short, ValueError for an unknown type code
load(f, pos) ==
  IF pos >= Len(f) THEN [raised |-> "EOFError", value |-> <<>>, pos |-> pos]
  ELSE IF f[pos + 1] = BadCode
       THEN [raised |-> "ValueError", value |-> <<>>, pos |-> pos]
  ELSE IF pos + 1 + f[pos + 1] > Len(f)
       THEN [raised |-> "EOFError", value |-> <<>>, pos |-> pos]
  ELSE [raised |-> "none",
        value |-> SubSeq(f, pos + 2, pos + 1 + f[pos + 1]),
        pos |-> pos + 1 + f[pos + 1]]

\* line 46: the file is opened
UnmarshalInit ==
  /\ ufile \in UNION {[1..n -> MarshalBytes] : n \in 0..MaxFileLen}
  /\ upos = 0
  /\ uyielded = <<>>
  /\ ustatus = "open"

\* lines 47-49: a record is loaded and yielded
UnmarshalYield ==
  /\ ustatus = "open"
  /\ load(ufile, upos).raised = "none"
  /\ uyielded' = Append(uyielded, load(ufile, upos).value)
  /\ upos' = load(ufile, upos).pos
  /\ UNCHANGED <<ufile, ustatus>>
  /\ UNCHANGED otherThanUnmarshal

\* lines 50-51: EOFError ends the iteration
UnmarshalEOF ==
  /\ ustatus = "open"
  /\ load(ufile, upos).raised = "EOFError"
  /\ ustatus' = "ended"
  /\ UNCHANGED <<ufile, upos, uyielded>>
  /\ UNCHANGED otherThanUnmarshal

\* line 49: any other exception of marshal.load leaves the generator
UnmarshalRaises ==
  /\ ustatus = "open"
  /\ load(ufile, upos).raised = "ValueError"
  /\ ustatus' = "ValueError"
  /\ UNCHANGED <<ufile, upos, uyielded>>
  /\ UNCHANGED otherThanUnmarshal

UnmarshalNext ==
  \/ UnmarshalYield
  \/ UnmarshalEOF
  \/ UnmarshalRaises

-----------------------------------------------------------------------------
(* Two runs of train.py on one corpus with the same options *)

RunsIdle ==
  /\ tprop = "one"
  /\ tcorpus = 0
  /\ tpos = <<0, 0>>
  /\ titems = <<<<>>, <<>>>>
  /\ tindex = <<EmptyDict, EmptyDict>>
  /\ tphase = <<"idle", "idle">>

\* the feature select_LD_features draws from a document
FeatureOf(doc) == <<doc % AlphabetSize>>

\* train.py lines 250-252: the LD feature set of the indexed documents
LDfeats(its) == {FeatureOf(its[i]) : i \in DOMAIN its}

\* both runs start on the same corpus with the same --proportion
RunsInit ==
  /\ tprop \in {"one", "between"}
  /\ tcorpus \in 0..MaxRunFiles
  /\ tpos = <<0, 0>>
  /\ titems = <<<<>>, <<>>>>
  /\ tindex = <<EmptyDict, EmptyDict>>
  /\ tphase = <<"index", "index">>

\* index.py lines 105-110: the next file of the walk, selected or not by
\* random.random() < self.proportion
RunIndexFile(r) ==
  /\ tphase[r] = "index"
  /\ tpos[r] < tcorpus
  /\ \E admitted \in Admissions(tprop) :
       titems' = [titems EXCEPT ![r] =
                    IF admitted THEN Append(@, tpos[r] + 1) ELSE @]
  /\ tpos' = [tpos EXCEPT ![r] = @ + 1]
  /\ UNCHANGED <<tprop, tcorpus, tindex, tphase>>
  /\ UNCHANGED otherThanRuns

\* the walk has ended
RunIndexed(r) ==
  /\ tphase[r] = "index"
  /\ tpos[r] = tcorpus
  /\ tphase' = [tphase EXCEPT ![r] = "features"]
  /\ UNCHANGED <<tprop, tcorpus, tpos, titems, tindex>>
  /\ UNCHANGED otherThanRuns

\* train.py lines 252 and 269, scanner.py line 190: LDfeats is a set, and
\* index(features) numbers it in the order the set iterates
RunBuildScanner(r) ==
  /\ tphase[r] = "features"
  /\ \E features \in Perms(LDfeats(titems[r])) :
       tindex' = [tindex EXCEPT ![r] = index(features)]
  /\ tphase' = [tphase EXCEPT ![r] = "done"]
  /\ UNCHANGED <<tprop, tcorpus, tpos, titems>>
  /\ UNCHANGED otherThanRuns

RunsNext ==
  \/ \E r \in 1..2 : RunIndexFile(r)
  \/ \E r \in 1..2 : RunIndexed(r)
  \/ \E r \in 1..2 : RunBuildScanner(r)

-----------------------------------------------------------------------------
(* Specifications *)

\* a Scanner is built and then scans a byte string
InitScanner ==
  ScannerInit /\ IndexerIdle /\ TrainIdle /\ PoolIdle /\ UnmarshalIdle /\ RunsIdle

SpecScanner == InitScanner /\ [][ScannerNext]_vars

\* a CorpusIndexer is constructed
InitIndexer ==
  IndexerInit /\ ScannerIdle /\ TrainIdle /\ PoolIdle /\ UnmarshalIdle /\ RunsIdle

SpecIndexer == InitIndexer /\ [][IndexerNext]_vars

\* train.py runs from the parsed command line to its end
InitTrain ==
  TrainInit /\ IndexerIdle /\ ScannerIdle /\ PoolIdle /\ UnmarshalIdle /\ RunsIdle

SpecTrain == InitTrain /\ [][TrainNext]_vars

\* a with-block on MapPool runs from the call to its end
InitMapPool ==
  PoolInit /\ ScannerIdle /\ IndexerIdle /\ TrainIdle /\ UnmarshalIdle /\ RunsIdle

SpecMapPool == InitMapPool /\ [][PoolNext]_vars

\* unmarshal_iter reads a bucket file to its end
InitUnmarshal ==
  UnmarshalInit /\ ScannerIdle /\ IndexerIdle /\ TrainIdle /\ PoolIdle /\ RunsIdle

SpecUnmarshal == InitUnmarshal /\ [][UnmarshalNext]_vars

\* train runs twice on the same corpus with the same options
InitRuns ==
  RunsInit /\ ScannerIdle /\ IndexerIdle /\ TrainIdle /\ PoolIdle /\ UnmarshalIdle

SpecRuns == InitRuns /\ [][RunsNext]_vars

-----------------------------------------------------------------------------
(* Claims about scanner.py *)

\* the number of positions i with B[i:i+|k|] = k
Occurrences(k, B) ==
  Cardinality({i \in 1..(Len(B) - Len(k) + 1) : SubSeq(B, i, i + Len(k) - 1) = k})

\* the number of times key k has been yielded
YieldCount(k) == Cardinality({i \in DOMAIN yielded : yielded[i] = k})

\* C1: for every scanned byte string and every keyword k of a duplicate-free
\* list of non-empty keywords, search yields k as many times as k occurs in
\* the string, overlapping occurrences included.
C1_ScanCountsOccurrences ==
  sphase = "search" =>
    \A k \in Range(keywords) : YieldCount(k) = Occurrences(k, consumed)

\* C1 witness: a keyword with two overlapping occurrences and a second
\* keyword, a proper suffix of another, have both been counted.
C1_Witness ==
  /\ sphase = "search"
  /\ \E k \in Range(keywords) :
       /\ Len(k) >= 2
       /\ YieldCount(k) >= 2
       /\ \E i, j \in 1..Len(consumed) :
            /\ i < j /\ j < i + Len(k)
            /\ j + Len(k) - 1 <= Len(consumed)
            /\ SubSeq(consumed, i, i + Len(k) - 1) = k
            /\ SubSeq(consumed, j, j + Len(k) - 1) = k
  /\ \E k1, k2 \in Range(keywords) :
       /\ Len(k2) < Len(k1)
       /\ SubSeq(k1, Len(k1) - Len(k2) + 1, Len(k1)) = k2
       /\ YieldCount(k1) >= 1
       /\ YieldCount(k2) >= 1

-----------------------------------------------------------------------------
(* Claims about index.py *)

\* a selected file whose labels pass the pre-specified allow-lists
Inside(f) ==
  /\ langs.given => f.lang \in Range(langs.list)
  /\ domains.given => f.domain \in Range(domains.list)

\* the file is an entry of self.items
Recorded(f) == \E i \in DOMAIN items : items[i][4] = Path(f)

\* the domains in which language l appears among the selected documents that
\* pass the allow-lists
DomainsOfLang(l) ==
  {walked[i].domain : i \in {j \in DOMAIN walked : walked[j].lang = l /\ Inside(walked[j])}}

\* the order in which the languages were first given an id: the position in
\* the pre-specified list, or else the first selected document of the language
FirstSeen(l) ==
  IF langs.given
  THEN CHOOSE i \in DOMAIN langs.list : langs.list[i] = l
  ELSE CHOOSE i \in DOMAIN walked :
         /\ walked[i].lang = l /\ Inside(walked[i])
         /\ \A j \in 1..(i - 1) : ~(walked[j].lang = l /\ Inside(walked[j]))

\* C2: with a language and/or domain allow-list, a selected file outside the
\* allow-lists is skipped without an error and a selected file inside them is
\* recorded in items.
C2_AllowListSkipsAndRecords ==
  (langs.given \/ domains.given) =>
    /\ istatus # "TypeError"
    /\ istatus = "index" =>
         \A i \in DOMAIN walked : Inside(walked[i]) <=> Recorded(walked[i])

\* C3: after construction every language that is a key of lang_index appears
\* in at least min_domain distinct domains among the admitted documents.
C3_RetainedLangsCoverMinDomain ==
  istatus = "done" =>
    \A l \in DOMAIN lang_index : Cardinality(DomainsOfLang(l)) >= min_domain

\* C4: after prune_min_domain the surviving languages have the ids 0..n-1,
\* in the order of their first-seen ids, every item carries the id of its own
\* language, no item of a rejected language remains and no item of a
\* surviving language is lost.
C4_DenseOrderPreservingRenumbering ==
  istatus = "done" =>
    LET n == Cardinality(DOMAIN lang_index) IN
      /\ {lang_index[l] : l \in DOMAIN lang_index} = 0..(n - 1)
      /\ \A l1, l2 \in DOMAIN lang_index :
           FirstSeen(l1) < FirstSeen(l2) => lang_index[l1] < lang_index[l2]
      /\ \A i \in DOMAIN items :
           /\ items[i][4][2] \in DOMAIN lang_index
           /\ items[i][2] = lang_index[items[i][4][2]]
           /\ items[i][2] < n
      /\ \A i \in DOMAIN walked :
           (Inside(walked[i]) /\ walked[i].lang \in DOMAIN lang_index)
             => Recorded(walked[i])

\* C4 witness: a language seen first was rejected, two languages seen after
\* it survive and have been renumbered, and their documents are still items.
C4_Witness ==
  /\ istatus = "done"
  /\ ~langs.given
  /\ \E r \in Langs \ DOMAIN lang_index, s1, s2 \in DOMAIN lang_index :
       /\ \E i \in DOMAIN walked : walked[i].lang = r /\ Inside(walked[i])
       /\ FirstSeen(r) < FirstSeen(s1)
       /\ FirstSeen(s1) < FirstSeen(s2)
       /\ lang_index[s1] = 0 /\ lang_index[s2] = 1
       /\ \E i, j \in DOMAIN items : items[i][2] = 0 /\ items[j][2] = 1

\* C5: construction never returns an indexer whose item list is empty.
C5_EmptyCorpusIsAnError ==
  istatus = "done" => items # <<>>

-----------------------------------------------------------------------------
(* Claims about train.py *)

BucketDirNames == {"bucket", "temp_dir", "model_dir/buckets"}

\* tally, IG and LD selection
SkippedWithLdFeats == {"build_index", "tally", "compute_IG", "select_LD_features"}

\* C6: with both --df_feats and --ld_feats the run stops at the configuration
\* error before any other effect: no directory is created, the corpus is not
\* indexed, no bucket is made and no model is written.
C6_ExclusiveFlagsStopFirst ==
  (args.df_feats /\ args.ld_feats /\ pc # "idle") =>
    /\ pc \in {"start", "config_error"}
    /\ created = {}
    /\ \A e \in fs : e.name \in {"corpus", "temp_dir"}
    /\ istatus = "idle"
    /\ items = <<>>
    /\ b_dirs = <<>>
    /\ calls = <<>>

\* C6 witness: the run has ended with the configuration error.
C6_Witness ==
  args.df_feats /\ args.ld_feats /\ pc = "config_error"

\* C7: in a run with --ld_feats the buckets directory is never created.
C7_LdFeatsNeverCreatesBucketsDir ==
  args.ld_feats => buckets_dir(args) \notin created

\* C8: in a run with --ld_feats, whatever the other flags, tally, IG and LD
\* selection are never run, and the run (on a corpus with documents) goes on
\* to the model file without an exception.
C8_LdFeatsSkipsToModel ==
  args.ld_feats =>
    /\ Range(calls) \cap SkippedWithLdFeats = {}
    /\ items # <<>> => pc \notin Crashes

\* C9 as claimed: after a successful run without --debug and without
\* --ld_feats no bucket directory the run created exists any more, the
\* buckets directory included, also with --temp; with --debug all are kept.
C9_NoBucketDirLeftBehind ==
  pc = "done" =>
    /\ (~args.debug /\ ~args.ld_feats) =>
         \A e \in created \cap fs : e.name \notin BucketDirNames
    /\ args.debug =>
         {e \in created : e.name \in BucketDirNames} \subseteq fs

\* C9 as amended: after a successful run without --debug and without
\* --ld_feats no first-pass or second-pass bucket directory exists, and the
\* buckets directory is removed exactly when --temp is not given (a --temp
\* directory stays, created by the run or not); with --debug every bucket
\* directory of both passes and the buckets directory are kept.
C9_BucketDirsRemovedExceptTemp ==
  pc = "done" =>
    /\ (~args.debug /\ ~args.ld_feats) =>
         /\ \A e \in fs : e.name # "bucket"
         /\ args.temp <=> buckets_dir(args) \in fs
    /\ args.debug =>
         /\ {e \in created : e.name \in BucketDirNames} \subseteq fs
         /\ \A p \in 1..2, i \in 1..args.buckets : Bucket(p, i) \in fs
         /\ buckets_dir(args) \in fs

\* C9 witness: a successful run without --debug and --ld_feats that made
\* the --temp directory itself and has ended.
C9_Witness ==
  /\ pc = "done"
  /\ ~args.debug /\ ~args.ld_feats /\ args.temp
  /\ Entry("temp_dir") \in created
  /\ Bucket(1, 1) \in created /\ Bucket(2, 1) \in created

NonPositiveParameter(a) ==
  a.chunksize <= 0 \/ a.min_domain <= 0 \/ a.proportion = "nonpositive"

\* C10: a run with a non-positive numeric parameter is rejected before any
\* document is indexed or tokenized.
C10_NonPositiveRejectedBeforeIndexing ==
  (NonPositiveParameter(args) /\ pc # "idle") =>
    /\ items = <<>>
    /\ tokenized = {}


-----------------------------------------------------------------------------
(* Further claims about scanner.py *)

\* the states of the automaton
States == 0..newstate

\* build has returned
Built == sphase \in {"packed", "translated", "search"}

\* the byte string that leads from the root to state s
RECURSIVE Label(_)
Label(s) ==
  IF s = 0 THEN <<>>
  ELSE LET e == CHOOSE k \in DOMAIN goto : goto[k] = s /\ k[1] # s
       IN  Label(e[1]) \o <<e[2]>>

Depth(s) == Len(Label(s))

NoDup(q) == \A i, j \in DOMAIN q : q[i] = q[j] => i = j

IsSuffix(k, w) ==
  Len(k) <= Len(w) /\ SubSeq(w, Len(w) - Len(k) + 1, Len(w)) = k

\* the move of the goto/fail machine from state r on byte a
Delta(r, a) == goto[<<Descend(goto, fail, r, a), a>>]

\* the state the goto/fail machine is in after reading w from the root
RECURSIVE GotoFailRun(_)
GotoFailRun(w) ==
  IF w = <<>> THEN 0
  ELSE Delta(GotoFailRun(SubSeq(w, 1, Len(w) - 1)), w[Len(w)])

\* C11: a Scanner rebuilt by __setstate__ from the __getstate__ of a built
\* Scanner yields, on every input, the same sequence of keys as the built one.
C11_SetStateRoundTrip ==
  sphase = "search" => ryielded = yielded

\* C11 witness: both scanners have read a whole input and yielded keys.
C11_Witness ==
  /\ sphase = "search"
  /\ Len(consumed) = MaxInputLen
  /\ Len(ryielded) >= 2

\* the first bytes of the keywords
FirstBytes == {k[1] : k \in Range(keywords)}

\* C12: the root row of the packed table is defined for every byte; it is 0
\* for a byte that starts no keyword and the depth-1 state of the byte
\* otherwise.
C12_RootRowTotal ==
  Built =>
    \A b \in Range(alphabet) :
      /\ b + 1 \in DOMAIN nm_arr
      /\ b \notin FirstBytes => nm_arr[b + 1] = 0
      /\ b \in FirstBytes => nm_arr[b + 1] # 0 /\ Label(nm_arr[b + 1]) = <<b>>

\* C12 witness: a built scanner with a byte that starts a keyword and a byte
\* that starts none.
C12_Witness ==
  /\ Built
  /\ FirstBytes = {0}
  /\ newstate >= 2

\* C13: the packed table has num_states * |alphabet| cells, cell
\* s * |alphabet| + b holds nextmove(s, b) and is below num_states; the cells
\* have typecode 'H' exactly when the largest state number fits such a cell
\* and typecode 'L' otherwise, with the same values.
C13_PackedTableExact ==
  Built =>
    /\ Len(nm_arr) = (newstate + 1) * AlphabetSize
    /\ \A s \in States, b \in Range(alphabet) :
         /\ nm_arr[s * AlphabetSize + b + 1] = nextmove[<<s, b>>]
         /\ nm_arr[s * AlphabetSize + b + 1] < newstate + 1
    /\ typecode \in {"H", "L"}
    /\ typecode = "H" <=> newstate <= UShortMax

\* C13 witness: a built scanner whose state numbers do not fit typecode 'H'.
C13_Witness ==
  /\ Built
  /\ newstate > UShortMax
  /\ typecode = "L"

\* C16: nextmove is defined for every state and byte and is the move of the
\* goto/fail machine; the search by the table is in the state the goto/fail
\* machine is in; and the row of fail[r] is complete when Algorithm 4 turns
\* to the row of r.
C16_NextmoveIsGotoFail ==
  /\ Built =>
       \A r \in States, a \in Range(alphabet) :
         <<r, a>> \in DOMAIN nextmove /\ nextmove[<<r, a>>] = Delta(r, a)
  /\ sphase = "search" => state = GotoFailRun(consumed)
  /\ (sphase = "alg4" /\ queue # <<>>) =>
       \A a \in Range(alphabet) : <<fail[Head(queue)], a>> \in DOMAIN nextmove

\* C16 witness: a search has ended in a state entered by a failure move
\* that does not lead to the root's own move.
C16_Witness ==
  /\ sphase = "search"
  /\ Len(consumed) = MaxInputLen
  /\ \E r \in States, a \in Range(alphabet) :
       /\ <<r, a>> \notin DOMAIN goto
       /\ fail[r] # 0
       /\ nextmove[<<r, a>>] # nextmove[<<0, a>>]

\* C17: tk_output[s] holds position i exactly when features[i] is a suffix of
\* the byte string that leads to s, holds no position twice, and holds only
\* positions of the feature list.  (Stated where build_scanner returns; the
\* map does not change afterwards.)
C17_OutputIsSuffixPositions ==
  sphase = "translated" =>
    /\ DOMAIN tk_output \subseteq States
    /\ \A s \in States, i \in 0..(Len(keywords) - 1) :
         (s \in DOMAIN tk_output /\ i \in Range(tk_output[s]))
           <=> IsSuffix(keywords[i + 1], Label(s))
    /\ \A s \in DOMAIN tk_output :
         /\ NoDup(tk_output[s])
         /\ Range(tk_output[s]) \subseteq 0..(Len(keywords) - 1)

\* C17 witness: a state whose output holds two features, one of them by
\* propagation along fail.
C17_Witness ==
  /\ sphase = "translated"
  /\ \E s \in DOMAIN tk_output : Len(tk_output[s]) >= 2

\* C19: build terminates: each deque of Algorithms 3 and 4 receives every
\* non-root state exactly once; the root has a goto edge for every byte;
\* fail is defined for every state the descent visits and leads to a state
\* of strictly smaller depth; fail of the root is never defined or read.
\* (Stated for the states of build; nothing of it changes afterwards.)
C19_BuildTerminates ==
  sphase \in {"alg3init", "alg3", "alg4", "packed"} =>
    /\ NoDup(enq)
    /\ \A a \in Range(alphabet) : <<0, a>> \in DOMAIN goto
    /\ 0 \notin DOMAIN fail
    /\ \A s \in DOMAIN fail :
         /\ fail[s] \in {0} \cup DOMAIN fail
         /\ Depth(fail[s]) < Depth(s)
    /\ sphase \in {"alg3", "alg4"} => Range(queue) \subseteq DOMAIN fail
    /\ ((sphase \in {"alg3", "alg4"} /\ queue = <<>>) \/ sphase = "packed") =>
         /\ Range(enq) = 1..newstate
         /\ DOMAIN fail = 1..newstate

\* C19 witness: Algorithm 4 has emptied its deque on an automaton of the
\* largest size with a failure link that does not lead to the root.
C19_Witness ==
  /\ sphase = "alg4"
  /\ queue = <<>>
  /\ newstate = MaxStates
  /\ \E s \in DOMAIN fail : fail[s] # 0


-----------------------------------------------------------------------------
(* Claims about common.py *)

\* the tasks that are running, wherever they run
Running ==
  {i \in DOMAIN tstate : tstate[i] \in {"running_caller", "running_worker"}}

\* what C14 says of a block entered with processes = 1
SequentialInProcess ==
  /\ pool = "none"
  /\ init_calls = (IF initializer THEN 1 ELSE 0)
  /\ Cardinality(Running) <= 1
  /\ \A i \in DOMAIN tstate : tstate[i] \notin {"queued", "running_worker"}
  /\ results = [i \in 1..Len(results) |-> i]
  /\ \A i \in DOMAIN tstate : tstate[i] = "done" <=> i \in Range(results)

\* C14: with processes = 1 no pool is made, the initializer (if any) has run
\* once in the calling process, and fn is applied to the chunks one at a time
\* in input order in the calling process; with processes unspecified the
\* pool size is the CPU count + 4.
C14_OneProcessIsSequential ==
  /\ (processes = SomeInt(1) /\ mpc \notin {"idle", "call"}) => SequentialInProcess
  /\ (processes = None /\ mpc \notin {"idle", "call"}) =>
       n_processes = cpu_count + 4

\* the same for the calls that give initargs whenever they give an initializer
C14_WithInitargs ==
  (initializer => initargs) => C14_OneProcessIsSequential

\* C20: with more than one process, after a body that ended normally the
\* pool is closed before it is joined, join is never called on a pool that
\* is not closed, and the block is left only when every task handed to the
\* pool inside it is done.
C20_CloseThenJoin ==
  /\ mpc = "joining" => pool = "CLOSE"
  /\ mpc # "ValueError"
  /\ pool = "joined" => mpc = "left"
  /\ (mpc = "left" /\ n_processes > 1) =>
       /\ pool = "joined"
       /\ \A i \in DOMAIN tstate : tstate[i] = "done"

\* C20 witness: the body handed chunks to the pool and ended without
\* receiving a result; the block has been left.
C20_Witness ==
  /\ mpc = "left"
  /\ n_processes > 1
  /\ nchunks = MaxChunks
  /\ results = <<>>

\* a file that is a concatenation of whole records
RECURSIVE Complete(_)
Complete(f) ==
  \/ f = <<>>
  \/ /\ f[1] <= MaxPayload
     /\ 1 + f[1] <= Len(f)
     /\ Complete(SubSeq(f, 2 + f[1], Len(f)))

\* C18: reading a bucket file that is malformed or ends inside a record
\* never ends the iteration normally.
C18_DamagedFileIsAnError ==
  ustatus = "ended" => Complete(ufile)

\* an unknown type code is never passed over
C18_BadCodeIsAnError ==
  (ustatus = "ended" /\ upos < Len(ufile)) => ufile[upos + 1] # BadCode

-----------------------------------------------------------------------------
(* Claims about runs of train.py *)

\* C15: two runs on the same corpus with the same options produce the same
\* model: the same indexed documents and the same feature numbering.
C15_TwoRunsSameModel ==
  (tphase[1] = "done" /\ tphase[2] = "done") =>
    /\ titems[1] = titems[2]
    /\ tindex[1] = tindex[2]

\* runs with --proportion 1 and at most one LD feature leave no choice
C15_NoChoiceLeft ==
  (tprop = "one" /\ tcorpus <= 1) => C15_TwoRunsSameModel

=============================================================================
